---- MODULE Spec2Model ----
(***************************************************************************)
(* A model of archify: the paginated playlist and track retrieval, the     *)
(* name resolver, the Markdown archive writer, the batch and bulk          *)
(* handlers (src/playlist_logic.py) and the command loop (src/archify.py). *)
(*                                                                         *)
(* Text is modelled by TLA+ strings, one character per position.  Three    *)
(* ASCII characters stand for characters the module's text cannot hold:    *)
(*   "@"  U+FF21 FULLWIDTH LATIN CAPITAL LETTER A   (NFKC: "A")            *)
(*   "$"  U+FF41 FULLWIDTH LATIN SMALL LETTER A     (NFKC: "a")            *)
(*   "~"  U+00A0 NO-BREAK SPACE  (whitespace to str.strip; NFKC: " ")      *)
(* Python's None is the tagged record field null = TRUE.                   *)
(***************************************************************************)
EXTENDS Integers, Sequences, FiniteSets, TLC

VARIABLES
    \* ---- the remote catalog service (sp) ----
    remotePlaylists,   \* the user's playlists, in the remote's listing order
    remoteTracks,      \* playlist id -> the items of that playlist, in order
    remoteReliable,    \* FALSE: the remote may serve an empty page with next set
    \* ---- locals of get_all_playlists / get_playlist_tracks ----
    playlists,         \* get_all_playlists: playlists
    track_entries,     \* get_playlist_tracks: track_entries
    offset,            \* offset of the next page to ask for
    idx,               \* get_playlist_tracks: idx
    playlist_id,       \* get_playlist_tracks: playlist_id
    fetchLog,          \* the pages received so far: <<[offset, n, next], ...>>
    \* ---- the resolver ----
    query,             \* inputted_playlist_name
    resolved,          \* what get_playlist_id_by_name returned
    fuzzyRan,          \* whether process.extractBests was called
    suggested,         \* the names printed after "Did you mean:"
    \* ---- the local file system ----
    dirExists,         \* whether the directory archive/ exists
    files,             \* archive files: path -> sequence of lines
    lastWrite,         \* path -> the name and tracks of the last completed write
    \* ---- the command loop and the handlers ----
    pc,                \* where control is
    command,           \* parts[0] of the last input
    argument,          \* ' '.join(parts[1:]) of the last input
    names,             \* handle_archive_batch: playlist_names; handle_archive_all: playlists
    pos,               \* how many entries of names the loop has taken
    outcomes,          \* per entry taken: its name, how it ended, the files before and after
    err,               \* the exception in flight or last caught: "none", ...
    calls              \* lookups and track fetches begun by the command being run

vars == <<remotePlaylists, remoteTracks, remoteReliable, playlists, track_entries,
          offset, idx, playlist_id, fetchLog, query, resolved, fuzzyRan, suggested, dirExists, files,
          lastWrite, pc, command, argument, names, pos, outcomes, err, calls>>

remoteVars == <<remotePlaylists, remoteTracks, remoteReliable>>
pagingVars == <<playlists, track_entries, offset, idx, playlist_id, fetchLog>>
resolverVars == <<query, resolved, fuzzyRan, suggested>>
fsVars == <<dirExists, files, lastWrite>>
loopVars == <<command, argument, names, pos, outcomes, err, calls>>

\***************************************************************************
\* Text
\***************************************************************************

Min(a, b) == IF a < b THEN a ELSE b

Ch(s, i) == SubSeq(s, i, i)

UpperLetters == "ABCDEFGHIJKLMNOPQRSTUVWXYZ"
LowerLetters == "abcdefghijklmnopqrstuvwxyz"

\* The lower-case letter of each upper-case letter.
LowerOf ==
    [c \in {Ch(UpperLetters, i) : i \in 1..Len(UpperLetters)} |->
        Ch(LowerLetters, CHOOSE i \in 1..Len(UpperLetters) : Ch(UpperLetters, i) = c)]

\* str.lower() on one character
LowerChar(c) ==
    IF c \in DOMAIN LowerOf THEN LowerOf[c] ELSE IF c = "@" THEN "$" ELSE c

RECURSIVE Lower(_)
Lower(s) == IF s = "" THEN "" ELSE LowerChar(Head(s)) \o Lower(Tail(s))

\* str.isspace() on one character
IsSpace(c) == c \in {" ", "~"}

RECURSIVE LStrip(_)
LStrip(s) == IF s # "" /\ IsSpace(Head(s)) THEN LStrip(Tail(s)) ELSE s

RECURSIVE RStrip(_)
RStrip(s) ==
    IF s # "" /\ IsSpace(Ch(s, Len(s))) THEN RStrip(SubSeq(s, 1, Len(s) - 1)) ELSE s

\* str.strip()
Strip(s) == RStrip(LStrip(s))

\* unicodedata.normalize('NFKC', c) on one character
NFKCChar(c) == IF c = "@" THEN "A" ELSE IF c = "$" THEN "a" ELSE IF c = "~" THEN " " ELSE c

RECURSIVE NFKC(_)
NFKC(s) == IF s = "" THEN "" ELSE NFKCChar(Head(s)) \o NFKC(Tail(s))

\* str.replace(' ', '_')
RECURSIVE ReplaceSpaces(_)
ReplaceSpaces(s) ==
    IF s = "" THEN ""
    ELSE (IF Head(s) = " " THEN "_" ELSE Head(s)) \o ReplaceSpaces(Tail(s))

\* str.endswith(suffix)
EndsWith(s, suffix) ==
    Len(s) >= Len(suffix) /\ SubSeq(s, Len(s) - Len(suffix) + 1, Len(s)) = suffix

\* str.split(): the maximal runs of non-whitespace characters, in order
RECURSIVE SplitFrom(_, _, _)
SplitFrom(s, word, acc) ==
    IF s = "" THEN (IF word = "" THEN acc ELSE Append(acc, word))
    ELSE IF IsSpace(Head(s))
         THEN SplitFrom(Tail(s), "", IF word = "" THEN acc ELSE Append(acc, word))
         ELSE SplitFrom(Tail(s), word \o Head(s), acc)

Split(s) == SplitFrom(s, "", <<>>)

\* sep.join(parts)
RECURSIVE Join(_, _)
Join(sep, parts) ==
    IF parts = <<>> THEN ""
    ELSE IF Len(parts) = 1 THEN parts[1]
    ELSE parts[1] \o sep \o Join(sep, Tail(parts))

\* str(n) for n >= 0, as an f-string renders an int
RECURSIVE Decimal(_)
Decimal(n) ==
    IF n < 10 THEN Ch("0123456789", n + 1)
    ELSE Decimal(n \div 10) \o Ch("0123456789", (n % 10) + 1)

\***************************************************************************
\* The remote catalog service
\***************************************************************************

\* A page as the remote serves it for (offset, limit): the slice of the listing
\* and a next-page link exactly when entries lie beyond the slice.
Page(listing, off, lim) ==
    [items |-> SubSeq(listing, off + 1, Min(off + lim, Len(listing))),
     next  |-> off + lim < Len(listing)]

\* What a call may return: the page, or, from a remote that is not reliable,
\* an empty page that still carries a next-page link.
Replies(listing, off, lim) ==
    {Page(listing, off, lim)}
        \cup (IF remoteReliable THEN {} ELSE {[items |-> <<>>, next |-> TRUE]})

\***************************************************************************
\* get_all_playlists
\***************************************************************************

PlaylistLimit == 50

\* PlaylistsBody with the batch assigned to the list instead of extending it.
PlaylistsBodyAssigns(st, batch) ==
    [playlists |-> batch.items,
     offset    |-> IF batch.next THEN st.offset + PlaylistLimit ELSE st.offset,
     done      |-> ~batch.next]

\* One pass of the while loop, given the batch the call returned.
PlaylistsBody(st, batch) ==
    [playlists |-> st.playlists \o batch.items,
     offset    |-> IF batch.next THEN st.offset + PlaylistLimit ELSE st.offset,
     done      |-> ~batch.next]

\* get_all_playlists(sp) against a reliable remote, run to its return.
RECURSIVE GetAllPlaylistsLoop(_, _)
GetAllPlaylistsLoop(listing, st) ==
    LET st2 == PlaylistsBody(st, Page(listing, st.offset, PlaylistLimit))
    IN  IF st2.done THEN st2.playlists ELSE GetAllPlaylistsLoop(listing, st2)

get_all_playlists(listing) ==
    GetAllPlaylistsLoop(listing, [playlists |-> <<>>, offset |-> 0, done |-> FALSE])

\***************************************************************************
\* get_playlist_tracks
\***************************************************************************

TrackLimit == 100

Truthy(opt) == ~opt.null /\ opt.name # ""

\* ArtistNames without the else branch: an empty list joins to the empty string.
ArtistNamesNoElse(artists) ==
    Join(", ", [i \in 1..Len(artists) |->
                   IF Truthy(artists[i]) THEN artists[i].name ELSE "Unknown Artist"])

\* ', '.join(artist["name"] or 'Unknown Artist' for artist in artists), or
\* "Unknown Artist" for an empty list
ArtistNames(artists) ==
    IF artists # <<>>
    THEN Join(", ", [i \in 1..Len(artists) |->
                        IF Truthy(artists[i]) THEN artists[i].name
                        ELSE "Unknown Artist"])
    ELSE "Unknown Artist"

\* f"{idx}. _{track['name']}_ by {artist_names}"
TrackLine(i, track) ==
    Decimal(i) \o ". _" \o track.name \o "_ by " \o ArtistNames(track.artists)

\* FormatItem with idx advanced before the test for a null track.
FormatItemCountsNull(item, st) ==
    IF item.track.null THEN [st EXCEPT !.idx = st.idx + 1]
    ELSE [idx |-> st.idx + 1,
          track_entries |-> Append(st.track_entries, TrackLine(st.idx + 1, item.track))]

\* The body of the for loop for one item: a null track is passed over and
\* does not advance idx.
FormatItem(item, st) ==
    IF item.track.null THEN st
    ELSE [idx |-> st.idx + 1,
          track_entries |-> Append(st.track_entries, TrackLine(st.idx + 1, item.track))]

\* The for loop over items[lo..hi], in order, the state threaded through (the
\* range is halved only to keep the evaluation shallow).
RECURSIVE FormatRange(_, _, _, _)
FormatRange(items, lo, hi, st) ==
    IF lo > hi THEN st
    ELSE IF lo = hi THEN FormatItem(items[lo], st)
    ELSE LET mid == (lo + hi) \div 2
             left == FormatRange(items, lo, mid, st)
         IN  \* idx is never negative: the test has left evaluated before the
             \* second half is entered
             IF left.idx >= 0 THEN FormatRange(items, mid + 1, hi, left) ELSE left

\* The for loop over one page's items.
FormatItems(items, i, entries) ==
    FormatRange(items, 1, Len(items), [idx |-> i, track_entries |-> entries])

\* One pass of the while loop, given the results the call returned.
TracksBody(st, results) ==
    IF results.items = <<>>
    THEN [st EXCEPT !.done = TRUE]
    ELSE LET f == FormatItems(results.items, st.idx, st.track_entries)
         IN  [track_entries |-> f.track_entries,
              idx    |-> f.idx,
              offset |-> IF results.next THEN st.offset + TrackLimit ELSE st.offset,
              done   |-> ~results.next]

\* get_playlist_tracks(sp, playlist_id) against a reliable remote, run to its return.
RECURSIVE GetPlaylistTracksLoop(_, _)
GetPlaylistTracksLoop(listing, st) ==
    LET st2 == TracksBody(st, Page(listing, st.offset, TrackLimit))
    IN  IF st2.done THEN st2.track_entries ELSE GetPlaylistTracksLoop(listing, st2)

get_playlist_tracks(listing) ==
    GetPlaylistTracksLoop(listing,
        [track_entries |-> <<>>, idx |-> 0, offset |-> 0, done |-> FALSE])

\***************************************************************************
\* get_playlist_id_by_name
\***************************************************************************

NoId == [null |-> TRUE, id |-> ""]
SomeId(i) == [null |-> FALSE, id |-> i]

\* `if not playlist_id`
IdTruthy(r) == ~r.null /\ r.id # ""

FuzzyLimit == 3

\* unicodedata.normalize('NFKC', playlist['name'].strip())
ReadPlaylistName(playlist) == NFKC(Strip(playlist.name))

\* The test of the for loop: the playlist's name is stripped, normalized and
\* lowered; the inputted name is only lowered.
NameMatches(playlist, inputted_playlist_name) ==
    Lower(ReadPlaylistName(playlist)) = Lower(inputted_playlist_name)

\* The for loop: the id of the first playlist whose name matches, else None.
ExactMatch(listing, inputted_playlist_name) ==
    IF \E i \in 1..Len(listing) : NameMatches(listing[i], inputted_playlist_name)
    THEN SomeId(listing[CHOOSE i \in 1..Len(listing) :
                    /\ NameMatches(listing[i], inputted_playlist_name)
                    /\ \A j \in 1..(i - 1) :
                          ~NameMatches(listing[j], inputted_playlist_name)].id)
    ELSE NoId

\* The keys of the dict handed to the fuzzy search.
FuzzyCandidates(listing) == {ReadPlaylistName(listing[i]) : i \in 1..Len(listing)}

\* process.extractBests(..., score_cutoff=fuzzy_threshold, limit=3): the
\* scoring is the library's; any choice of at most three candidates may pass.
ExtractBests(candidates) == {m \in SUBSET candidates : Cardinality(m) <= FuzzyLimit}

\* get_playlist_id_by_name over the playlists fetched, given what the fuzzy
\* search would return: the id of the exact match, or None (the fuzzy
\* matches are printed, never returned).
ResolveName(listing, inputted_playlist_name, matches) ==
    LET exact == ExactMatch(listing, inputted_playlist_name)
    IN  IF ~exact.null
        THEN [id |-> exact, fuzzy |-> FALSE, printed |-> {}]
        ELSE [id |-> NoId, fuzzy |-> TRUE, printed |-> matches]

\***************************************************************************
\* save_playlist_to_markdown
\***************************************************************************

\* A directory without files, as a map from paths.
NoFiles == [p \in {} |-> ""]

\* f"{directory}/{playlist_name.replace(' ', '_').lower()}_playlist_archive.md"
OutputFilename(playlist_name) ==
    "archive/" \o Lower(ReplaceSpaces(playlist_name)) \o "_playlist_archive.md"

\* What the with block writes: the title, an empty line, each line and "\n".
RECURSIVE WrittenLines(_)
WrittenLines(tracks) ==
    IF tracks = <<>> THEN "" ELSE Head(tracks) \o "\n" \o WrittenLines(Tail(tracks))

WrittenText(playlist_name, tracks) ==
    "# " \o playlist_name \o " Song Archive\n\n" \o WrittenLines(tracks)

\* open(output_filename, "a"): the text already in the file is kept.
OpenedForAppend(existing) == existing

\* open(output_filename, "w"): the file is created empty or truncated.
OpenedForWrite(existing) == ""

\* The text of the file at path, "" when there is none.
TextAt(fileMap, path) == IF path \in DOMAIN fileMap THEN fileMap[path] ELSE ""

Put(fileMap, path, value) ==
    [p \in DOMAIN fileMap \cup {path} |-> IF p = path THEN value ELSE fileMap[p]]

\* save_playlist_to_markdown(playlist_name, tracks) on the file system fs; with
\* fault = "write" the open() raises after the directory has been made.
save_playlist_to_markdown(playlist_name, tracks, fs, fault) ==
    LET output_filename == OutputFilename(playlist_name)
    IN  IF fault = "write"
        THEN [raised |-> "Exception", path |-> output_filename,
              fs |-> [fs EXCEPT !.dirExists = TRUE]]
        ELSE [raised |-> "none", path |-> output_filename,
              fs |-> [dirExists |-> TRUE,
                      files |-> Put(fs.files, output_filename,
                                    OpenedForWrite(TextAt(fs.files, output_filename))
                                        \o WrittenText(playlist_name, tracks)),
                      lastWrite |-> Put(fs.lastWrite, output_filename,
                                        [name |-> playlist_name, tracks |-> tracks])]]

\***************************************************************************
\* The handlers
\***************************************************************************

\* The batch files on disk: path -> lines.
BatchFiles ==
    [path \in {"mix.batch", "blank.batch", "empty.batch", "notes.txt"} |->
        CASE path = "mix.batch"   -> <<"B", "", " Ghost ", "a">>
          [] path = "blank.batch" -> <<"", "  ">>
          [] path = "empty.batch" -> <<>>
          [] path = "notes.txt"   -> <<"a">>]

NonBlank(line) == Strip(line) # ""

RECURSIVE StripAll(_)
StripAll(lines) ==
    IF lines = <<>> THEN <<>> ELSE <<Strip(Head(lines))>> \o StripAll(Tail(lines))

\* [line.strip() for line in f if line.strip()]
PlaylistNames(lines) == StripAll(SelectSeq(lines, NonBlank))

\* The faults a lookup of playlist_name followed by an archive can meet: the
\* track listing and the file are reached only with an id in hand.
FaultsMet(listing, playlist_name) ==
    {"none", "list"}
        \cup (IF IdTruthy(ExactMatch(listing, playlist_name)) THEN {"tracks", "write"}
              ELSE {})

\* What the fuzzy search may return where a lookup reaches it.
PossibleMatches(listing, playlist_name, fault) ==
    IF fault = "list" \/ ~ExactMatch(listing, playlist_name).null THEN {{}}
    ELSE ExtractBests(FuzzyCandidates(listing))

\* The playlist lookup of a handler: get_all_playlists inside
\* get_playlist_id_by_name.  fault names the call that raises, if any: "list"
\* the playlist listing, "tracks" the track listing, "write" the opening of
\* the archive file.
Lookup(playlist_name, fault, matches) ==
    IF fault = "list"
    THEN [raised |-> "Exception", id |-> NoId, fuzzy |-> FALSE, printed |-> {}]
    ELSE LET r == ResolveName(get_all_playlists(remotePlaylists), playlist_name, matches)
         IN  [raised |-> "none", id |-> r.id, fuzzy |-> r.fuzzy, printed |-> r.printed]

\* tracks = get_playlist_tracks(sp, playlist_id); save_playlist_to_markdown(...);
\* with fault = "tracks" the remote call raises.
FetchAndSave(playlist_name, id, fs, fault) ==
    IF fault = "tracks"
    THEN [raised |-> "Exception", kind |-> "fetch_error", fs |-> fs]
    ELSE LET saved == save_playlist_to_markdown(
                          playlist_name, get_playlist_tracks(remoteTracks[id]), fs, fault)
         IN  [raised |-> saved.raised,
              kind |-> IF saved.raised = "none" THEN "archived" ELSE "write_error",
              fs |-> saved.fs]

\* handle_archive_playlist(console, sp, user_input)
handle_archive_playlist(user_input, fs, fault, matches) ==
    IF user_input = ""
    THEN [raised |-> "PlaylistArchiverError", calls |-> 0, fs |-> fs,
          found |-> NoId, fuzzy |-> FALSE, printed |-> {}]
    ELSE LET r == Lookup(user_input, fault, matches)
         IN  IF r.raised # "none"
             THEN [raised |-> r.raised, calls |-> 1, fs |-> fs,
                   found |-> NoId, fuzzy |-> FALSE, printed |-> {}]
             ELSE IF ~IdTruthy(r.id)
             THEN [raised |-> "PlaylistArchiverError", calls |-> 1, fs |-> fs,
                   found |-> r.id, fuzzy |-> r.fuzzy, printed |-> r.printed]
             ELSE LET done == FetchAndSave(user_input, r.id.id, fs, fault)
                  IN  [raised |-> done.raised, calls |-> 2, fs |-> done.fs,
                       found |-> r.id, fuzzy |-> r.fuzzy, printed |-> r.printed]

\* BatchChecks without the test for an empty list of names.
BatchChecksNoEmptyTest(user_input) ==
    IF ~(user_input # "" /\ EndsWith(user_input, ".batch"))
    THEN "PlaylistArchiverError"
    ELSE IF user_input \notin DOMAIN BatchFiles
    THEN "PlaylistArchiverError"
    ELSE "none"

\* handle_archive_batch up to its for loop: the exception the checks raise.
BatchChecks(user_input) ==
    IF ~(user_input # "" /\ EndsWith(user_input, ".batch"))
    THEN "PlaylistArchiverError"
    ELSE IF user_input \notin DOMAIN BatchFiles
    THEN "PlaylistArchiverError"
    ELSE IF PlaylistNames(BatchFiles[user_input]) = <<>>
    THEN "PlaylistArchiverError"
    ELSE "none"

\* The body of handle_archive_batch's for loop with the not-found branch
\* raising, as handle_archive_playlist's does.
BatchItemRaises(playlist_name, fs, fault, matches) ==
    LET r == Lookup(playlist_name, fault, matches)
    IN  IF r.raised # "none"
        THEN [raised |-> r.raised, kind |-> "list_error", calls |-> 1, fs |-> fs,
              found |-> NoId, fuzzy |-> FALSE, printed |-> {}]
        ELSE IF ~IdTruthy(r.id)
        THEN [raised |-> "PlaylistArchiverError", kind |-> "skipped", calls |-> 1,
              fs |-> fs, found |-> r.id, fuzzy |-> r.fuzzy, printed |-> r.printed]
        ELSE LET done == FetchAndSave(playlist_name, r.id.id, fs, fault)
             IN  [raised |-> done.raised, kind |-> done.kind, calls |-> 2,
                  fs |-> done.fs, found |-> r.id, fuzzy |-> r.fuzzy,
                  printed |-> r.printed]

\* The body of handle_archive_batch's for loop for one name.
BatchItem(playlist_name, fs, fault, matches) ==
    LET r == Lookup(playlist_name, fault, matches)
    IN  IF r.raised # "none"
        THEN [raised |-> r.raised, kind |-> "list_error", calls |-> 1, fs |-> fs,
              found |-> NoId, fuzzy |-> FALSE, printed |-> {}]
        ELSE IF ~IdTruthy(r.id)
        THEN [raised |-> "none", kind |-> "skipped", calls |-> 1, fs |-> fs,
              found |-> r.id, fuzzy |-> r.fuzzy, printed |-> r.printed]
        ELSE LET done == FetchAndSave(playlist_name, r.id.id, fs, fault)
             IN  [raised |-> done.raised, kind |-> done.kind, calls |-> 2,
                  fs |-> done.fs, found |-> r.id, fuzzy |-> r.fuzzy,
                  printed |-> r.printed]

\* The body of handle_archive_all's for loop for one playlist.
AllItem(playlist, fs, fault) ==
    LET done == FetchAndSave(playlist.name, playlist.id, fs, fault)
    IN  [raised |-> done.raised, kind |-> done.kind, calls |-> 1, fs |-> done.fs]

\***************************************************************************
\* The two pagination loops, one page per step
\***************************************************************************

MaxPlaylists == 101
MaxTracks == 101
MaxFetches == 4

\* A listing of n playlists.
PlaylistListing(n) ==
    [i \in 1..n |-> [id |-> "id" \o Decimal(i), name |-> "List " \o Decimal(i)]]

Some(s) == [null |-> FALSE, name |-> s]
None == [null |-> TRUE, name |-> ""]
NullTrack == [null |-> TRUE, name |-> "", artists |-> <<>>]

ArtistLists ==
    [one        |-> <<Some("X")>>,
     none       |-> <<>>,
     null_name  |-> <<None>>,
     null_first |-> <<None, Some("Y")>>,
     null_both  |-> <<None, None>>,
     two        |-> <<Some("X"), Some("Y")>>,
     empty_name |-> <<Some("")>>]

Kinds == {"null_track"} \cup DOMAIN ArtistLists

\* The item at position i of a listing that repeats the pair of kinds pat.
Item(pat, i) ==
    LET kind == pat[((i - 1) % 2) + 1]
    IN  [track |-> IF kind = "null_track" THEN NullTrack
                   ELSE [null |-> FALSE, name |-> "T" \o Decimal(i),
                         artists |-> ArtistLists[kind]]]

\* The pairs the listings are built from: every kind beside a null track, on
\* either side, beside an ordinary track and beside a track without artists.
Patterns ==
    UNION {{<<k, "null_track">>, <<"null_track", k>>, <<k, "one">>, <<k, "none">>} :
              k \in Kinds}

TrackListing(n, pat) == [i \in 1..n |-> Item(pat, i)]

IdleResolver == query = "" /\ resolved = NoId /\ fuzzyRan = FALSE /\ suggested = {}
IdleFs == dirExists = FALSE /\ files = NoFiles /\ lastWrite = NoFiles
IdleLoop ==
    /\ command = "" /\ argument = "" /\ names = <<>> /\ pos = 0 /\ outcomes = <<>>
    /\ err = "none" /\ calls = 0
IdlePaging ==
    /\ playlists = <<>> /\ track_entries = <<>> /\ offset = 0 /\ idx = 0
    /\ fetchLog = <<>>

InitPaging ==
    /\ remoteReliable \in BOOLEAN
    /\ \/ /\ pc = "get_all_playlists"
          /\ \E n \in 0..MaxPlaylists : remotePlaylists = PlaylistListing(n)
          /\ remoteTracks = <<>>
          /\ playlist_id = ""
       \/ /\ pc = "get_playlist_tracks"
          /\ remotePlaylists = PlaylistListing(1)
          /\ playlist_id = "id1"
          /\ \E n \in 0..MaxTracks, pat \in Patterns :
                remoteTracks = [i \in {"id1"} |-> TrackListing(n, pat)]
    /\ IdlePaging /\ IdleResolver /\ IdleFs /\ IdleLoop

Logged(batch) == [offset |-> offset, n |-> Len(batch.items), next |-> batch.next]

\* get_all_playlists: one pass of the loop, from the call to the test of next.
GetAllPlaylistsStep ==
    /\ pc = "get_all_playlists"
    /\ remoteReliable \/ Len(fetchLog) < MaxFetches
    /\ \E batch \in Replies(remotePlaylists, offset, PlaylistLimit) :
          LET st2 == PlaylistsBody([playlists |-> playlists, offset |-> offset,
                                    done |-> FALSE], batch)
          IN  /\ playlists' = st2.playlists
              /\ offset' = st2.offset
              /\ pc' = IF st2.done THEN "returned_playlists" ELSE pc
              /\ fetchLog' = Append(fetchLog, Logged(batch))
    /\ UNCHANGED <<remoteVars, track_entries, idx, playlist_id, resolverVars,
                   fsVars, loopVars>>

\* get_playlist_tracks: one pass of the loop, from the call to the test of next.
GetPlaylistTracksStep ==
    /\ pc = "get_playlist_tracks"
    /\ remoteReliable \/ Len(fetchLog) < MaxFetches
    /\ \E results \in Replies(remoteTracks[playlist_id], offset, TrackLimit) :
          LET st2 == TracksBody([track_entries |-> track_entries, idx |-> idx,
                                 offset |-> offset, done |-> FALSE], results)
          IN  /\ track_entries' = st2.track_entries
              /\ idx' = st2.idx
              /\ offset' = st2.offset
              /\ pc' = IF st2.done THEN "returned_tracks" ELSE pc
              /\ fetchLog' = Append(fetchLog, Logged(results))
    /\ UNCHANGED <<remoteVars, playlists, playlist_id, resolverVars, fsVars,
                   loopVars>>

NextPaging == GetAllPlaylistsStep \/ GetPlaylistTracksStep

SpecPaging == InitPaging /\ [][NextPaging]_vars

\***************************************************************************
\* Properties of the pagination loops (under SpecPaging)
\***************************************************************************

IsTrack(item) == ~item.track.null

\* The non-null entries of the listing being fetched, in the order served.
SourceTracks == SelectSeq(remoteTracks[playlist_id], IsTrack)

StartsWith(s, prefix) == Len(s) >= Len(prefix) /\ SubSeq(s, 1, Len(prefix)) = prefix

IsDigit(c) == \E d \in 1..10 : Ch("0123456789", d) = c
DigitValue(c) == (CHOOSE d \in 1..10 : Ch("0123456789", d) = c) - 1

\* The number a line's leading digits spell, and what follows them.
RECURSIVE ReadNumber(_, _)
ReadNumber(s, acc) ==
    IF s # "" /\ IsDigit(Head(s))
    THEN ReadNumber(Tail(s), 10 * acc + DigitValue(Head(s)))
    ELSE [value |-> acc, rest |-> s]

\* The text of a line after its first " by ".
AfterBy(line) ==
    LET at == CHOOSE k \in 1..Len(line) :
                /\ SubSeq(line, k, k + 3) = " by "
                /\ \A j \in 1..(k - 1) : SubSeq(line, j, j + 3) # " by "
    IN  SubSeq(line, at + 4, Len(line))

\* The pieces of s between occurrences of ", ".
RECURSIVE CommaParts(_, _, _)
CommaParts(s, piece, acc) ==
    IF s = "" THEN Append(acc, piece)
    ELSE IF StartsWith(s, ", ") THEN CommaParts(SubSeq(s, 3, Len(s)), "", Append(acc, piece))
    ELSE CommaParts(Tail(s), piece \o Head(s), acc)

\* C1: against a remote that serves a listing of N playlists in pages of 50,
\* get_all_playlists asks at offsets 0, 50, 100, ..., stops after the first
\* page without a next-page link, and returns the N playlists, each once, in
\* the order served.
C1_AllPlaylistsInOrder ==
    (pc = "returned_playlists" /\ remoteReliable) =>
        /\ playlists = remotePlaylists
        /\ \A i \in 1..Len(fetchLog) :
              /\ fetchLog[i].offset = 50 * (i - 1)
              /\ fetchLog[i].next <=> i < Len(fetchLog)

C1_Witness ==
    /\ pc = "returned_playlists" /\ remoteReliable
    /\ Len(remotePlaylists) = 51 /\ Len(fetchLog) = 2 /\ Len(playlists) = 51

\* C2: for a listing of n entries of which k have a null track, served in
\* pages, get_playlist_tracks returns n - k lines, line i begins with the
\* number i and renders the i-th non-null entry.
C2_LinesNumberedContiguously ==
    (pc = "returned_tracks" /\ remoteReliable) =>
        LET listing == remoteTracks[playlist_id]
            k == Cardinality({i \in 1..Len(listing) : listing[i].track.null})
        IN  /\ Len(track_entries) = Len(listing) - k
            /\ \A i \in 1..Len(track_entries) :
                  LET read == ReadNumber(track_entries[i], 0)
                  IN  /\ read.value = i
                      /\ StartsWith(read.rest,
                                    ". _" \o SourceTracks[i].track.name \o "_ by ")

C2_Witness ==
    /\ pc = "returned_tracks" /\ remoteReliable
    /\ Len(remoteTracks[playlist_id]) = 101
    /\ remoteTracks[playlist_id][100].track.null
    /\ Len(fetchLog) = 2 /\ Len(track_entries) = 51

HasNullName(artists) == \E j \in 1..Len(artists) : artists[j].null

\* C3 as claimed: a track whose artist list is empty or holds an entry with a
\* null name is rendered with the artist segment "Unknown Artist".
C3_SegmentExactlyUnknown ==
    (pc = "returned_tracks" /\ remoteReliable) =>
        \A i \in 1..Len(track_entries) :
            LET artists == SourceTracks[i].track.artists
            IN  (artists = <<>> \/ HasNullName(artists)) =>
                    AfterBy(track_entries[i]) = "Unknown Artist"

\* C3 as amended: the segment is "Unknown Artist" for an empty list and for a
\* list of one null name; in a longer list each null name is rendered as
\* "Unknown Artist" at its place among the names joined by ", ".
C3_NullNamesRenderedInPlace ==
    (pc = "returned_tracks" /\ remoteReliable) =>
        \A i \in 1..Len(track_entries) :
            LET artists == SourceTracks[i].track.artists
                segment == AfterBy(track_entries[i])
                parts == CommaParts(segment, "", <<>>)
            IN  /\ artists = <<>> => segment = "Unknown Artist"
                /\ artists # <<>> =>
                      /\ Len(parts) = Len(artists)
                      /\ \A j \in 1..Len(artists) :
                            /\ artists[j].null => parts[j] = "Unknown Artist"
                            /\ Truthy(artists[j]) => parts[j] = artists[j].name

C3_Witness ==
    /\ pc = "returned_tracks" /\ remoteReliable
    /\ Len(track_entries) = 101
    /\ SourceTracks[1].track.artists = <<None, Some("Y")>>
    /\ SourceTracks[2].track.artists = <<>>
    /\ AfterBy(track_entries[1]) = "Unknown Artist, Y"
    /\ AfterBy(track_entries[2]) = "Unknown Artist"

\* C10 as claimed: after an empty page that carries a next-page link, a loop
\* fetches at most one more page.
C10_AtMostOneMorePage ==
    \A i \in 1..Len(fetchLog) :
        (fetchLog[i].n = 0 /\ fetchLog[i].next) => Len(fetchLog) <= i + 1

\* get_playlist_tracks alone does stop there: its test for an empty page ends
\* the loop at once.
TracksStopAtEmptyPage ==
    pc \in {"get_playlist_tracks", "returned_tracks"} =>
        \A i \in 1..Len(fetchLog) :
            fetchLog[i].n = 0 => (i = Len(fetchLog) /\ pc = "returned_tracks")

\***************************************************************************
\* The resolver on its own
\***************************************************************************

\* Playlist names and inputted names.
NameUniverse == {"A", "a", "@", "$", " A", "a~", "B", "A B"}

\* Listings of at most two playlists over the names.
SmallListings ==
    {<<>>}
      \cup {<<[id |-> "id1", name |-> n]>> : n \in NameUniverse}
      \cup {<<[id |-> "id1", name |-> n], [id |-> "id2", name |-> m]>> :
                n \in NameUniverse, m \in NameUniverse}

InitResolve ==
    /\ remotePlaylists \in SmallListings
    /\ remoteTracks = <<>>
    /\ remoteReliable = TRUE
    /\ query \in NameUniverse
    /\ resolved = NoId /\ fuzzyRan = FALSE /\ suggested = {}
    /\ playlist_id = ""
    /\ pc = "get_playlist_id_by_name"
    /\ IdlePaging /\ IdleFs /\ IdleLoop

\* get_playlist_id_by_name(sp, query), from its call to its return.
GetPlaylistIdByName ==
    /\ pc = "get_playlist_id_by_name"
    /\ LET fetched == get_all_playlists(remotePlaylists)
       IN  \E matches \in ExtractBests(FuzzyCandidates(fetched)) :
              LET r == ResolveName(fetched, query, matches)
              IN  /\ playlists' = fetched
                  /\ resolved' = r.id
                  /\ fuzzyRan' = r.fuzzy
                  /\ suggested' = r.printed
    /\ pc' = "returned_id"
    /\ UNCHANGED <<remoteVars, track_entries, offset, idx, playlist_id, fetchLog,
                   query, fsVars, loopVars>>

NextResolve == GetPlaylistIdByName

SpecResolve == InitResolve /\ [][NextResolve]_vars

\* The claim's normal form of a name: compatibility normalization, then strip,
\* compared without regard to case.
NormalForm(s) == Lower(Strip(NFKC(s)))

\* C4 as claimed: whenever the query and a playlist name have the same normal
\* form, the id of the first such playlist in listing order is returned and
\* the fuzzy search is not run.
C4_NormalizedExactMatchWins ==
    pc = "returned_id" =>
        LET hits == {i \in 1..Len(remotePlaylists) :
                        NormalForm(remotePlaylists[i].name) = NormalForm(query)}
        IN  hits # {} =>
              /\ resolved =
                    SomeId(remotePlaylists[CHOOSE i \in hits : \A j \in hits : i <= j].id)
              /\ ~fuzzyRan

\* What does hold: the claim for queries that are already stripped, normalized
\* text (the playlist names are normalized, the query is not).
ExactMatchWinsForPlainQueries ==
    (pc = "returned_id" /\ NFKC(Strip(query)) = query) =>
        LET hits == {i \in 1..Len(remotePlaylists) :
                        Lower(NFKC(Strip(remotePlaylists[i].name))) = Lower(query)}
        IN  hits # {} =>
              /\ resolved =
                    SomeId(remotePlaylists[CHOOSE i \in hits : \A j \in hits : i <= j].id)
              /\ ~fuzzyRan

\***************************************************************************
\* The command loop (get_user_input) with the handlers it dispatches to
\***************************************************************************

COMMANDS ==
    {"q", "show-playlists", "archive", "archive-batch", "view-archive",
     "archive-all", "help"}

\* The lines typed at the prompt.
Inputs ==
    {"", "  ", "q", " q now ", "Q", "bogus", "help", "show-playlists",
     "view-archive", "archive-all", "archive", "archive a", "archive  road   trip",
     "archive Ghost", "archive @", "archive-batch", "archive-batch notes.txt",
     "archive-batch gone.batch", "archive-batch blank.batch",
     "archive-batch empty.batch", "archive-batch mix.batch"}

\* The remote's playlists, one listing per run.
Listings ==
    {<<>>,
     <<[id |-> "id1", name |-> "A"], [id |-> "id2", name |-> "a"]>>,
     <<[id |-> "id1", name |-> "Road Trip"], [id |-> "id2", name |-> "B"]>>,
     <<[id |-> "id1", name |-> "@"], [id |-> "id3", name |-> "Ghosts"]>>}

\* The items of each playlist.
Tracks ==
    [id \in {"id1", "id2", "id3"} |->
        CASE id = "id1" -> TrackListing(3, <<"one", "null_track">>)
          [] id = "id2" -> TrackListing(2, <<"null_first", "none">>)
          [] id = "id3" -> TrackListing(0, <<"one", "one">>)]

\* user_input.strip(), parts = user_input.split(), command and argument
Parse(raw) ==
    LET user_input == Strip(raw)
        parts == Split(user_input)
    IN  [empty    |-> user_input = "",
         command  |-> IF user_input = "" THEN "" ELSE parts[1],
         argument |-> IF Len(parts) <= 1 THEN "" ELSE Join(" ", Tail(parts))]

\* What the loop makes of each line.
ParsedInputs == {Parse(raw) : raw \in Inputs}

\* The try statement around the handler call, without its except Exception
\* clause.
AfterHandlerNoCatchAll(exc) ==
    IF exc \in {"none", "PlaylistArchiverError"} THEN "prompt" ELSE "exited"

\* Where control goes once the handler has returned or raised exc: the two
\* except clauses print and the loop continues; exit(0)'s SystemExit is no
\* Exception and ends the process.
AfterHandler(exc) ==
    IF exc \in {"none", "PlaylistArchiverError", "Exception"} THEN "prompt"
    ELSE "exited"

Fs == [dirExists |-> dirExists, files |-> files, lastWrite |-> lastWrite]

SetFs(fs) ==
    /\ dirExists' = fs.dirExists
    /\ files' = fs.files
    /\ lastWrite' = fs.lastWrite

\* No lookup has been made by the command being run.
NoLookup == query' = "" /\ resolved' = NoId /\ fuzzyRan' = FALSE /\ suggested' = {}

\* What every dispatch records: the command and argument, and the run of the
\* handler begun afresh.
Dispatched(p, exc, n, taken) ==
    /\ command' = p.command
    /\ argument' = p.argument
    /\ names' = taken
    /\ pos' = 0
    /\ outcomes' = <<>>
    /\ err' = exc
    /\ calls' = n

InitLoop ==
    /\ remotePlaylists \in Listings
    /\ remoteTracks = Tracks
    /\ remoteReliable = TRUE
    /\ playlist_id = ""
    /\ pc = "prompt"
    /\ IdlePaging /\ IdleResolver /\ IdleFs /\ IdleLoop

\* An input that is empty once stripped: "Please enter a command".
EmptyInput ==
    /\ pc = "prompt"
    /\ \E p \in ParsedInputs :
              /\ p.empty
              /\ Dispatched(p, "none", 0, <<>>)
    /\ pc' = "prompt"
    /\ NoLookup
    /\ UNCHANGED <<remoteVars, pagingVars, fsVars>>

\* A command that is no key of COMMANDS: "Unknown command".
UnknownCommand ==
    /\ pc = "prompt"
    /\ \E p \in ParsedInputs :
              /\ ~p.empty /\ p.command \notin COMMANDS
              /\ Dispatched(p, "none", 0, <<>>)
    /\ pc' = "prompt"
    /\ NoLookup
    /\ UNCHANGED <<remoteVars, pagingVars, fsVars>>

\* "q": exit(0)
Quit ==
    /\ pc = "prompt"
    /\ \E p \in ParsedInputs :
              /\ ~p.empty /\ p.command = "q"
              /\ Dispatched(p, "SystemExit", 0, <<>>)
    /\ pc' = AfterHandler("SystemExit")
    /\ NoLookup
    /\ UNCHANGED <<remoteVars, pagingVars, fsVars>>

\* "help" and "view-archive": print, and read nothing remote.
HelpOrViewArchive ==
    /\ pc = "prompt"
    /\ \E p \in ParsedInputs :
              /\ ~p.empty /\ p.command \in {"help", "view-archive"}
              /\ Dispatched(p, "none", 0, <<>>)
    /\ pc' = AfterHandler("none")
    /\ NoLookup
    /\ UNCHANGED <<remoteVars, pagingVars, fsVars>>

\* "show-playlists": handle_show_playlists
ShowPlaylists ==
    /\ pc = "prompt"
    /\ \E p \in ParsedInputs, fault \in {"none", "list"} :
          LET exc == IF fault = "list" THEN "Exception" ELSE "none"
          IN  /\ ~p.empty /\ p.command = "show-playlists"
              /\ Dispatched(p, exc, 1, <<>>)
              /\ pc' = AfterHandler(exc)
    /\ NoLookup
    /\ UNCHANGED <<remoteVars, pagingVars, fsVars>>

\* "archive <name>": handle_archive_playlist
ArchivePlaylist ==
    /\ pc = "prompt"
    /\ \E p \in {i \in ParsedInputs : ~i.empty /\ i.command = "archive"} :
       \E fault \in IF p.argument = "" THEN {"none"}
                     ELSE FaultsMet(remotePlaylists, p.argument) :
       \E matches \in PossibleMatches(remotePlaylists, p.argument, fault) :
          LET h == handle_archive_playlist(p.argument, Fs, fault, matches)
          IN  /\ Dispatched(p, h.raised, h.calls, <<>>)
              /\ SetFs(h.fs)
              /\ query' = p.argument
              /\ resolved' = h.found
              /\ fuzzyRan' = h.fuzzy
              /\ suggested' = h.printed
              /\ pc' = AfterHandler(h.raised)
    /\ UNCHANGED <<remoteVars, pagingVars>>

\* "archive-batch <path>": handle_archive_batch up to its for loop
ArchiveBatchBegin ==
    /\ pc = "prompt"
    /\ \E p \in ParsedInputs :
          LET exc == BatchChecks(p.argument)
          IN  /\ ~p.empty /\ p.command = "archive-batch"
              /\ Dispatched(p, exc, 0,
                            IF exc = "none" THEN PlaylistNames(BatchFiles[p.argument])
                            ELSE <<>>)
              /\ pc' = IF exc = "none" THEN "batch_loop" ELSE AfterHandler(exc)
    /\ NoLookup
    /\ UNCHANGED <<remoteVars, pagingVars, fsVars>>

\* The entry the loop records for the name or playlist it has just taken.
Outcome(name, kind, printed) ==
    [name |-> name, kind |-> kind, printed |-> printed,
     before |-> files, after |-> files']

\* handle_archive_batch: one pass of the for loop, and the return after the
\* last name.
ArchiveBatchItem ==
    /\ pc = "batch_loop"
    /\ pos < Len(names)
    /\ \E fault \in FaultsMet(remotePlaylists, names[pos + 1]) :
       \E matches \in PossibleMatches(remotePlaylists, names[pos + 1], fault) :
          LET playlist_name == names[pos + 1]
              b == BatchItem(playlist_name, Fs, fault, matches)
          IN  /\ SetFs(b.fs)
              /\ query' = playlist_name
              /\ resolved' = b.found
              /\ fuzzyRan' = b.fuzzy
              /\ suggested' = b.printed
              /\ pos' = pos + 1
              /\ outcomes' = Append(outcomes, Outcome(playlist_name, b.kind, b.printed))
              /\ calls' = calls + b.calls
              /\ err' = b.raised
              /\ pc' = IF b.raised = "none" /\ pos + 1 < Len(names) THEN "batch_loop"
                       ELSE AfterHandler(b.raised)
    /\ UNCHANGED <<remoteVars, pagingVars, command, argument, names>>

\* "archive-all": handle_archive_all up to its for loop
ArchiveAllBegin ==
    /\ pc = "prompt"
    /\ \E p \in ParsedInputs, fault \in {"none", "list"} :
          LET exc == IF fault = "list" THEN "Exception" ELSE "none"
              fetched == IF fault = "list" THEN <<>>
                         ELSE get_all_playlists(remotePlaylists)
          IN  /\ ~p.empty /\ p.command = "archive-all"
              /\ Dispatched(p, exc, 1, fetched)
              /\ pc' = IF exc = "none" /\ fetched # <<>> THEN "all_loop"
                       ELSE AfterHandler(exc)
    /\ NoLookup
    /\ UNCHANGED <<remoteVars, pagingVars, fsVars>>

\* handle_archive_all: one pass of the for loop, and the return after the last
\* playlist.
ArchiveAllItem ==
    /\ pc = "all_loop"
    /\ pos < Len(names)
    /\ \E fault \in {"none", "tracks", "write"} :
          LET playlist == names[pos + 1]
              a == AllItem(playlist, Fs, fault)
          IN  /\ SetFs(a.fs)
              /\ pos' = pos + 1
              /\ outcomes' = Append(outcomes, Outcome(playlist.name, a.kind, {}))
              /\ calls' = calls + a.calls
              /\ err' = a.raised
              /\ pc' = IF a.raised = "none" /\ pos + 1 < Len(names) THEN "all_loop"
                       ELSE AfterHandler(a.raised)
    /\ UNCHANGED <<remoteVars, pagingVars, resolverVars, command, argument, names>>

Next ==
    \/ EmptyInput
    \/ UnknownCommand
    \/ Quit
    \/ HelpOrViewArchive
    \/ ShowPlaylists
    \/ ArchivePlaylist
    \/ ArchiveBatchBegin
    \/ ArchiveBatchItem
    \/ ArchiveAllBegin
    \/ ArchiveAllItem

Spec == InitLoop /\ [][Next]_vars

\***************************************************************************
\* Properties of the handlers and the command loop (under Spec)
\***************************************************************************

\* The comparison that decides an exact match, on the remote's listing.
ExactlyMatched(name) ==
    \E i \in 1..Len(remotePlaylists) :
        Lower(NFKC(Strip(remotePlaylists[i].name))) = Lower(name)

ArchivePath(name) == "archive/" \o Lower(ReplaceSpaces(name)) \o "_playlist_archive.md"

\* C5: handle_archive_batch takes the names in file order; a name is archived
\* exactly when it has an exact match (and no call raised); a name without
\* one, suggestions or not, is skipped, writes nothing and does not raise, and
\* the loop goes on to the names after it.
C5_BatchSkipsUnmatchedNames ==
    (command = "archive-batch" /\ names # <<>>) =>
        /\ Len(outcomes) = pos /\ pos <= Len(names)
        /\ \A j \in 1..Len(outcomes) :
              LET o == outcomes[j]
              IN  /\ o.name = names[j]
                  /\ o.kind \in {"archived", "skipped"} =>
                        (o.kind = "archived" <=> ExactlyMatched(o.name))
                  /\ o.kind \in {"fetch_error", "write_error"} => ExactlyMatched(o.name)
                  /\ o.kind = "archived" => ArchivePath(o.name) \in DOMAIN o.after
                  /\ o.kind # "archived" => o.after = o.before
                  /\ (o.kind = "skipped" /\ j = Len(outcomes)) => err = "none"
                  /\ (o.kind = "skipped" /\ j < Len(names)) =>
                        (j < Len(outcomes) \/ pc = "batch_loop")
        /\ (pc = "prompt" /\ err = "none") => Len(outcomes) = Len(names)

C5_Witness ==
    /\ command = "archive-batch" /\ pc = "prompt" /\ err = "none"
    /\ Len(outcomes) = 3
    /\ outcomes[1].kind = "skipped" /\ outcomes[1].printed = {}
    /\ outcomes[2].kind = "skipped" /\ outcomes[2].printed # {}
    /\ outcomes[3].kind = "archived"
    /\ DOMAIN files = {ArchivePath(outcomes[3].name)}

\* C6 as claimed: in handle_archive_batch and handle_archive_all an error
\* raised while fetching the tracks of an entry or writing its file leaves the
\* loop running: the entries after it are still taken.
C6_ErrorsDoNotAbort ==
    command \in {"archive-batch", "archive-all"} =>
        \A j \in 1..Len(outcomes) :
            (outcomes[j].kind \in {"fetch_error", "write_error"} /\ j < Len(names)) =>
                (pc \in {"batch_loop", "all_loop"} \/ j < Len(outcomes))

\* C7: every archive file sits at the path derived from the name last written
\* to it and holds the title line, an empty line and the lines of that write
\* alone.
C7_LastWriteOnly ==
    \A path \in DOMAIN files :
        LET w == lastWrite[path]
        IN  /\ path = ArchivePath(w.name)
            /\ files[path] =
                  "# " \o w.name \o " Song Archive\n\n"
                      \o Join("", [i \in 1..Len(w.tracks) |-> w.tracks[i] \o "\n"])

C7_Witness ==
    /\ command = "archive-all" /\ pc = "prompt" /\ err = "none"
    /\ Len(outcomes) = 2
    /\ ArchivePath(outcomes[1].name) = ArchivePath(outcomes[2].name)
    /\ outcomes[1].after[ArchivePath(outcomes[1].name)] # files[ArchivePath(outcomes[2].name)]
    /\ lastWrite[ArchivePath(outcomes[2].name)].name = outcomes[2].name

\* C8: the process ends only on the command q; a caught error, an unknown
\* command and an empty input leave the loop at its prompt.
C8_OnlyQuitEndsTheLoop ==
    /\ pc = "exited" => command = "q"
    /\ err \in {"PlaylistArchiverError", "Exception"} => pc = "prompt"
    /\ command \notin COMMANDS => pc = "prompt"
    /\ pc \in {"prompt", "batch_loop", "all_loop", "exited"}

C8_Witness ==
    /\ pc = "prompt" /\ err = "Exception" /\ command = "archive-all"
    /\ Len(outcomes) = 1 /\ outcomes[1].kind = "fetch_error"

\* The inputs the handlers reject: archive without a name; archive-batch
\* without a path, with a path that does not end in .batch, with a path that
\* does not exist, or with a file that has no line but blank ones.
RejectedInput(cmd, arg) ==
    \/ cmd = "archive" /\ arg = ""
    \/ /\ cmd = "archive-batch"
       /\ \/ arg = ""
          \/ ~EndsWith(arg, ".batch")
          \/ arg \notin DOMAIN BatchFiles
          \/ \A i \in 1..Len(BatchFiles[arg]) : Strip(BatchFiles[arg][i]) = ""

\* C9: a rejected input raises PlaylistArchiverError with no remote call made
\* and the archive directory and files as they were.
C9_RejectedInputDoesNothing ==
    [][(pc = "prompt" /\ RejectedInput(command', argument')) =>
          /\ err' = "PlaylistArchiverError"
          /\ calls' = 0
          /\ files' = files /\ dirExists' = dirExists
          /\ pc' = "prompt"]_vars

C9_Witness ==
    /\ command = "archive-batch" /\ argument = "blank.batch"
    /\ err = "PlaylistArchiverError" /\ calls = 0 /\ pc = "prompt"
    /\ DOMAIN files # {} /\ dirExists

====
